---- MODULE Spec2Model ----
(***************************************************************************)
(* A model of package bytesize (src/bytesize.go): the locale unit tables,  *)
(* Parse / parseWithLocale, Format / String / formatWithUnits and          *)
(* getRussianPlural, with the package-level configuration variables as the *)
(* state.                                                                  *)
(*                                                                         *)
(* Representation.                                                         *)
(*   - A Go string is the sequence of its runes (Unicode code points), so  *)
(*     "1 MB" is <<49, 32, 77, 66>>.                                       *)
(*   - A uint64 (ByteSize) is its base-1024 expansion: a function b on     *)
(*     0..6 with value  SUM b[i] * 1024^i  and b[6] < 16.                  *)
(*   - A non-negative float64 is a fixed-point base-1024 expansion: a      *)
(*     function x on -8..7 with value  SUM x[i] * 1024^i  that has at most *)
(*     53 significant bits.  Every conversion that rounds or truncates in  *)
(*     Go (decimal -> float64, uint64 -> float64, float64 -> uint64/int,   *)
(*     float64 -> decimal text) is computed on these expansions.           *)
(***************************************************************************)
EXTENDS Integers, Sequences, FiniteSets, TLC

VARIABLES
    CurrentLocale,    \* var CurrentLocale Locale
    LongUnits,        \* var LongUnits bool
    Format,           \* var Format string (as runes)
    call,             \* the last call made and what it returned
    setLog,           \* the arguments of the SetLocale calls made so far
    recv,             \* the ByteSize that Set and UnmarshalText are called on
    texts             \* the Set and UnmarshalText calls made so far

vars == <<CurrentLocale, LongUnits, Format, call, setLog, recv, texts>>

(***************************************************************************)
(* Arithmetic on base-1024 expansions.                                     *)
(***************************************************************************)

\* One base-1024 digit is 10 bits: KB = 1 << 10.
Base == 1024

\* Limb positions of a uint64 and of a float64.
UIdx == 0..6
FIdx == (-8)..7

ZeroU == [i \in UIdx |-> 0]
ZeroF == [i \in FIdx |-> 0]

\* The uint64 with value n, for 0 <= n < 1024^3.
U64(n) == [i \in UIdx |-> IF i > 2 THEN 0 ELSE (n \div (Base^i)) % Base]

\* 1 << (10 * k) as a uint64.
Shl10(k) == [i \in UIdx |-> IF i = k THEN 1 ELSE 0]

\* Unsigned comparison a >= b of two expansions on lo..hi.
RECURSIVE GeqFrom(_, _, _, _)
GeqFrom(a, b, i, lo) ==
    IF i < lo THEN TRUE
    ELSE IF a[i] # b[i] THEN a[i] > b[i]
    ELSE GeqFrom(a, b, i - 1, lo)

GeqU(a, b) == GeqFrom(a, b, 6, 0)
GeqF(a, b) == GeqFrom(a, b, 7, -8)

\* x + amt * 1024^i, carrying upwards (positions above 7 are dropped).
RECURSIVE AddAt(_, _, _)
AddAt(x, i, amt) ==
    IF amt = 0 \/ i > 7 THEN x
    ELSE LET s == x[i] + amt
         IN  AddAt([x EXCEPT ![i] = s % Base], i + 1, s \div Base)

\* The number of bits of n, 1 <= n < 1024.
BitLen(n) == CHOOSE j \in 1..10 : 2^(j - 1) <= n /\ n < 2^j

\* The position of the highest set bit of x # 0 (bit 0 has weight 1).
TopLimb(x) == CHOOSE i \in DOMAIN x : x[i] # 0 /\ \A j \in DOMAIN x : j > i => x[j] = 0
TopBit(x) == 10 * TopLimb(x) + BitLen(x[TopLimb(x)]) - 1

\* IEEE-754 round-to-nearest-even of the exact value x (+ a non-zero tail
\* below 1024^-8 when sticky) to a 53-bit significand.
Round53(x, sticky) ==
    IF x = ZeroF THEN ZeroF
    ELSE
    LET c == TopBit(x) - 52          \* the lowest bit that is kept
        q == c \div 10
        r == c % 10
    IN  IF c <= -80 THEN x
        ELSE
        LET low      == x[q] % (2^r)
            halfLimb == IF r = 0 THEN x[q - 1] ELSE low
            halfW    == IF r = 0 THEN 512 ELSE 2^(r - 1)
            halfBit  == (halfLimb \div halfW) % 2
            below    == \/ halfLimb % halfW # 0
                        \/ sticky
                        \/ \E i \in FIdx : i < (IF r = 0 THEN q - 1 ELSE q) /\ x[i] # 0
            lsb      == (x[q] \div (2^r)) % 2
            kept     == [i \in FIdx |-> IF i > q THEN x[i]
                                        ELSE IF i = q THEN x[q] - low
                                        ELSE 0]
        IN  IF halfBit = 1 /\ (below \/ lsb = 1) THEN AddAt(kept, q, 2^r) ELSE kept

\* float64(b) for a uint64 b.
Float64(b) == Round53([i \in FIdx |-> IF i \in UIdx THEN b[i] ELSE 0], FALSE)

\* x * 2^(10 k) and x / 2^(10 k) in float64: exact, only the exponent moves
\* (0 <= k <= 6; nothing here reaches the subnormal or infinite range).
ShiftUp(x, k)   == [i \in FIdx |-> IF i - k \in FIdx THEN x[i - k] ELSE 0]
ShiftDown(x, k) == [i \in FIdx |-> IF i + k \in FIdx THEN x[i + k] ELSE 0]

\* The integer part of a float64 fits a uint64 / an int64.
FitsU64(x) == x[7] = 0 /\ x[6] < 16
FitsI64(x) == x[7] = 0 /\ x[6] < 8

\* The fraction of x is dropped (truncation toward zero).
TruncU(x) == [i \in UIdx |-> x[i]]

\* x * m + a for a small m, on positions lo..hi; the result is
\* [v |-> the expansion, carry |-> what left the top].
RECURSIVE MulSmallFrom(_, _, _, _, _)
MulSmallFrom(x, m, carry, i, hi) ==
    IF i > hi THEN [v |-> x, carry |-> carry]
    ELSE LET t == x[i] * m + carry
         IN  MulSmallFrom([x EXCEPT ![i] = t % Base], m, t \div Base, i + 1, hi)

\* x divided by a small m, on positions hi down to lo:
\* [q |-> the quotient, r |-> the remainder].
RECURSIVE DivSmallFrom(_, _, _, _, _)
DivSmallFrom(x, m, rem, i, lo) ==
    IF i < lo THEN [q |-> x, r |-> rem]
    ELSE LET t == rem * Base + x[i]
         IN  DivSmallFrom([x EXCEPT ![i] = t \div m], m, t % m, i - 1, lo)

\* The integer part of x (positions 0..7) and its fraction (positions -8..-1).
IntPart(x)  == [i \in FIdx |-> IF i >= 0 THEN x[i] ELSE 0]
FracPart(x) == [i \in FIdx |-> IF i < 0 THEN x[i] ELSE 0]

(***************************************************************************)
(* Strings: package strings / unicode on rune sequences.                   *)
(***************************************************************************)

\* unicode.IsDigit: the decimal digits (category Nd) among the runes used
\* here are ASCII 0-9 and ARABIC-INDIC 0-9 (U+0660..U+0669).
IsDigit(r) == r \in 48..57 \/ r \in 1632..1641

\* unicode.IsSpace on the runes used here: \t \n \v \f \r, space, NEL, NBSP.
IsSpace(r) == r \in 9..13 \/ r = 32 \/ r = 133 \/ r = 160

\* unicode.ToUpper on the runes used here: a-z, Cyrillic U+0430..U+044F
\* (32 below) and U+0450..U+045F (80 below).
ToUpperRune(r) ==
    IF r \in 97..122 \/ r \in 1072..1103 THEN r - 32
    ELSE IF r \in 1104..1119 THEN r - 80
    ELSE r

\* strings.ToUpper
ToUpper(s) == [i \in 1..Len(s) |-> ToUpperRune(s[i])]

\* strings.TrimSpace
RECURSIVE TrimLeft(_)
TrimLeft(s) == IF s # <<>> /\ IsSpace(Head(s)) THEN TrimLeft(Tail(s)) ELSE s

RECURSIVE TrimRight(_)
TrimRight(s) ==
    IF s # <<>> /\ IsSpace(s[Len(s)]) THEN TrimRight(SubSeq(s, 1, Len(s) - 1)) ELSE s

TrimSpace(s) == TrimRight(TrimLeft(s))

(***************************************************************************)
(* strconv.ParseFloat(s, 64) on the strings parseWithLocale can hand it:   *)
(* runes that are unicode digits or '.'.  Such a string is a float literal *)
(* iff it is ASCII digits with at most one '.', and at least one digit.    *)
(* The value is the decimal rounded to the nearest float64 (ties to even). *)
(* Domain: at most 6 digits after the point.                               *)
(***************************************************************************)

DotAt(s) == IF \E i \in 1..Len(s) : s[i] = 46
            THEN CHOOSE i \in 1..Len(s) : s[i] = 46 /\ \A j \in 1..(i - 1) : s[j] # 46
            ELSE Len(s) + 1

\* The digits before and after the (first) point.
IntDigits(s)  == SubSeq(s, 1, DotAt(s) - 1)
FracDigits(s) == SubSeq(s, DotAt(s) + 1, Len(s))

ValidFloat(s) ==
    /\ \A i \in 1..Len(s) : s[i] \in 48..57 \/ s[i] = 46
    /\ Cardinality({i \in 1..Len(s) : s[i] = 46}) <= 1
    /\ \E i \in 1..Len(s) : s[i] \in 48..57

\* The integer a digit string denotes, as an expansion on FIdx.
RECURSIVE DecToInt(_, _)
DecToInt(ds, acc) ==
    IF ds = <<>> THEN acc
    ELSE DecToInt(Tail(ds), MulSmallFrom(acc, 10, Head(ds) - 48, 0, 7).v)

\* The integer a short digit string denotes, as a number.
RECURSIVE NatOf(_, _)
NatOf(ds, acc) == IF ds = <<>> THEN acc ELSE NatOf(Tail(ds), acc * 10 + Head(ds) - 48)

\* The base-1024 expansion of rem / den below the point, position i downwards:
\* [v |-> the expansion, r |-> the remainder left below 1024^-8].
RECURSIVE FracExpand(_, _, _, _)
FracExpand(x, rem, den, i) ==
    IF i < -8 THEN [v |-> x, r |-> rem]
    ELSE LET t == rem * Base
         IN  FracExpand([x EXCEPT ![i] = t \div den], t % den, den, i - 1)

\* [ok |-> whether s is a float literal, val |-> its float64 value].
ParseFloat(s) ==
    IF ~ValidFloat(s) THEN [ok |-> FALSE, val |-> ZeroF]
    ELSE LET ip  == DecToInt(IntDigits(s), ZeroF)
             fd  == FracDigits(s)
             ex  == FracExpand(ip, NatOf(fd, 0), 10^Len(fd), -1)
         IN  [ok |-> TRUE, val |-> Round53(ex.v, ex.r # 0)]

(***************************************************************************)
(* fmt.Sprintf.  The verb %.Nf prints the exact binary value rounded to N  *)
(* decimals, ties to even (strconv's exact decimal conversion); %s prints  *)
(* the string.  Domain: formats whose verbs are one %.Nf (N a digit, N <=  *)
(* 6) taking the float, and %s taking the string; the rest is literal.     *)
(***************************************************************************)

\* The decimal digits of the integer x (an expansion on FIdx), "" for 0.
RECURSIVE ToDecimal(_)
ToDecimal(x) ==
    IF x = ZeroF THEN <<>>
    ELSE LET d == DivSmallFrom(x, 10, 0, 7, 0)
         IN  Append(ToDecimal(d.q), 48 + d.r)

\* n as exactly w decimal digits.
RECURSIVE Digits(_, _)
Digits(n, w) == IF w = 0 THEN <<>> ELSE Append(Digits(n \div 10, w - 1), 48 + (n % 10))

\* strconv.FormatFloat(x, 'f', prec, 64)
FormatFloat(x, prec) ==
    LET sc     == MulSmallFrom(FracPart(x), 10^prec, 0, -8, -1)
        rest   == sc.v                       \* what is below the last decimal
        d      == sc.carry                   \* the prec decimals, as a number
        tie    == rest[-1] = 512 /\ \A i \in (-8)..(-2) : rest[i] = 0
        odd    == IF prec = 0 THEN x[0] % 2 = 1 ELSE d % 2 = 1
        up     == rest[-1] >= 512 /\ (~tie \/ odd)
        d1     == IF up THEN d + 1 ELSE d
        ip     == IF d1 = 10^prec THEN AddAt(IntPart(x), 0, 1) ELSE IntPart(x)
        ds     == IF ip = ZeroF THEN <<48>> ELSE ToDecimal(ip)
    IN  IF prec = 0 THEN ds ELSE ds \o <<46>> \o Digits(d1 % (10^prec), prec)

\* fmt.Sprintf(format, value, str)
RECURSIVE Sprintf(_, _, _)
Sprintf(format, value, str) ==
    IF format = <<>> THEN <<>>
    ELSE IF /\ Len(format) >= 4
            /\ format[1] = 37 /\ format[2] = 46
            /\ format[3] \in 48..57 /\ format[4] = 102
         THEN FormatFloat(value, format[3] - 48)
                  \o Sprintf(SubSeq(format, 5, Len(format)), value, str)
    ELSE IF Len(format) >= 2 /\ format[1] = 37 /\ format[2] = 115
         THEN str \o Sprintf(SubSeq(format, 3, Len(format)), value, str)
    ELSE <<Head(format)>> \o Sprintf(Tail(format), value, str)

(***************************************************************************)
(* The unit tables (bytesize.go, lines 27-124).                            *)
(* Cyrillic spellings are transliterated in the comments.                  *)
(***************************************************************************)

\* const ( B ByteSize = 1; KB ByteSize = 1 << (10 * iota); MB; ... EB )
B  == Shl10(0)
KB == Shl10(1)
MB == Shl10(2)
GB == Shl10(3)
TB == Shl10(4)
PB == Shl10(5)
EB == Shl10(6)

\* The k with u = 1 << (10 * k), for a unit u.
Exp10(u) == CHOOSE k \in UIdx : u = Shl10(k)

LocaleEN == "en"
LocaleRU == "ru"

enLongUnits ==
       (B :> <<98, 121, 116, 101>>)                          \* B: "byte"
    @@ (KB :> <<107, 105, 108, 111, 98, 121, 116, 101>>)     \* KB: "kilobyte"
    @@ (MB :> <<109, 101, 103, 97, 98, 121, 116, 101>>)      \* MB: "megabyte"
    @@ (GB :> <<103, 105, 103, 97, 98, 121, 116, 101>>)      \* GB: "gigabyte"
    @@ (TB :> <<116, 101, 114, 97, 98, 121, 116, 101>>)      \* TB: "terabyte"
    @@ (PB :> <<112, 101, 116, 97, 98, 121, 116, 101>>)      \* PB: "petabyte"
    @@ (EB :> <<101, 120, 97, 98, 121, 116, 101>>)           \* EB: "exabyte"

enShortUnits ==
       (B :> <<66>>)                                         \* B: "B"
    @@ (KB :> <<75, 66>>)                                    \* KB: "KB"
    @@ (MB :> <<77, 66>>)                                    \* MB: "MB"
    @@ (GB :> <<71, 66>>)                                    \* GB: "GB"
    @@ (TB :> <<84, 66>>)                                    \* TB: "TB"
    @@ (PB :> <<80, 66>>)                                    \* PB: "PB"
    @@ (EB :> <<69, 66>>)                                    \* EB: "EB"

enParseMap ==
       (<<66>> :> B)                                                     \* "B"
    @@ (<<66, 89, 84, 69>> :> B)                                         \* "BYTE"
    @@ (<<66, 89, 84, 69, 83>> :> B)                                     \* "BYTES"
    @@ (<<75, 66>> :> KB)                                                \* "KB"
    @@ (<<75, 73, 76, 79, 66, 89, 84, 69>> :> KB)                        \* "KILOBYTE"
    @@ (<<75, 73, 76, 79, 66, 89, 84, 69, 83>> :> KB)                    \* "KILOBYTES"
    @@ (<<77, 66>> :> MB)                                                \* "MB"
    @@ (<<77, 69, 71, 65, 66, 89, 84, 69>> :> MB)                        \* "MEGABYTE"
    @@ (<<77, 69, 71, 65, 66, 89, 84, 69, 83>> :> MB)                    \* "MEGABYTES"
    @@ (<<71, 66>> :> GB)                                                \* "GB"
    @@ (<<71, 73, 71, 65, 66, 89, 84, 69>> :> GB)                        \* "GIGABYTE"
    @@ (<<71, 73, 71, 65, 66, 89, 84, 69, 83>> :> GB)                    \* "GIGABYTES"
    @@ (<<84, 66>> :> TB)                                                \* "TB"
    @@ (<<84, 69, 82, 65, 66, 89, 84, 69>> :> TB)                        \* "TERABYTE"
    @@ (<<84, 69, 82, 65, 66, 89, 84, 69, 83>> :> TB)                    \* "TERABYTES"
    @@ (<<80, 66>> :> PB)                                                \* "PB"
    @@ (<<80, 69, 84, 65, 66, 89, 84, 69>> :> PB)                        \* "PETABYTE"
    @@ (<<80, 69, 84, 65, 66, 89, 84, 69, 83>> :> PB)                    \* "PETABYTES"
    @@ (<<69, 66>> :> EB)                                                \* "EB"
    @@ (<<69, 88, 65, 66, 89, 84, 69>> :> EB)                            \* "EXABYTE"
    @@ (<<69, 88, 65, 66, 89, 84, 69, 83>> :> EB)                        \* "EXABYTES"

ruLongUnits ==
       (B :> <<1073, 1072, 1081, 1090>>)                     \* ru B: "bajt"
    @@ (KB :> <<1082, 1080, 1083, 1086, 1073, 1072, 1081, 1090>>) \* ru KB: "kilobajt"
    @@ (MB :> <<1084, 1077, 1075, 1072, 1073, 1072, 1081, 1090>>) \* ru MB: "megabajt"
    @@ (GB :> <<1075, 1080, 1075, 1072, 1073, 1072, 1081, 1090>>) \* ru GB: "gigabajt"
    @@ (TB :> <<1090, 1077, 1088, 1072, 1073, 1072, 1081, 1090>>) \* ru TB: "terabajt"
    @@ (PB :> <<1087, 1077, 1090, 1072, 1073, 1072, 1081, 1090>>) \* ru PB: "petabajt"
    @@ (EB :> <<1101, 1082, 1089, 1072, 1073, 1072, 1081, 1090>>) \* ru EB: "eksabajt"

ruShortUnits ==
       (B :> <<1041>>)                                       \* ru B: "B"
    @@ (KB :> <<1050, 1041>>)                                \* ru KB: "KB"
    @@ (MB :> <<1052, 1041>>)                                \* ru MB: "MB"
    @@ (GB :> <<1043, 1041>>)                                \* ru GB: "GB"
    @@ (TB :> <<1058, 1041>>)                                \* ru TB: "TB"
    @@ (PB :> <<1055, 1041>>)                                \* ru PB: "PB"
    @@ (EB :> <<1069, 1041>>)                                \* ru EB: "EB"

ruParseMap ==
       (<<1041>> :> B)                                                   \* ru "B"
    @@ (<<1041, 1040, 1049, 1058>> :> B)                                 \* ru "BAJT"
    @@ (<<1041, 1040, 1049, 1058, 1067>> :> B)                           \* ru "BAJTY"
    @@ (<<1041, 1040, 1049, 1058, 1054, 1042>> :> B)                     \* ru "BAJTOV"
    @@ (<<1050, 1041>> :> KB)                                            \* ru "KB"
    @@ (<<1050, 1048, 1051, 1054, 1041, 1040, 1049, 1058>> :> KB)        \* ru "KILOBAJT"
    @@ (<<1050, 1048, 1051, 1054, 1041, 1040, 1049, 1058, 1067>> :> KB)  \* ru "KILOBAJTY"
    @@ (<<1050, 1048, 1051, 1054, 1041, 1040, 1049, 1058, 1054, 1042>> :> KB) \* ru "KILOBAJTOV"
    @@ (<<1052, 1041>> :> MB)                                            \* ru "MB"
    @@ (<<1052, 1045, 1043, 1040, 1041, 1040, 1049, 1058>> :> MB)        \* ru "MEGABAJT"
    @@ (<<1052, 1045, 1043, 1040, 1041, 1040, 1049, 1058, 1067>> :> MB)  \* ru "MEGABAJTY"
    @@ (<<1052, 1045, 1043, 1040, 1041, 1040, 1049, 1058, 1054, 1042>> :> MB) \* ru "MEGABAJTOV"
    @@ (<<1043, 1041>> :> GB)                                            \* ru "GB"
    @@ (<<1043, 1048, 1043, 1040, 1041, 1040, 1049, 1058>> :> GB)        \* ru "GIGABAJT"
    @@ (<<1043, 1048, 1043, 1040, 1041, 1040, 1049, 1058, 1067>> :> GB)  \* ru "GIGABAJTY"
    @@ (<<1043, 1048, 1043, 1040, 1041, 1040, 1049, 1058, 1054, 1042>> :> GB) \* ru "GIGABAJTOV"
    @@ (<<1058, 1041>> :> TB)                                            \* ru "TB"
    @@ (<<1058, 1045, 1056, 1040, 1041, 1040, 1049, 1058>> :> TB)        \* ru "TERABAJT"
    @@ (<<1058, 1045, 1056, 1040, 1041, 1040, 1049, 1058, 1067>> :> TB)  \* ru "TERABAJTY"
    @@ (<<1058, 1045, 1056, 1040, 1041, 1040, 1049, 1058, 1054, 1042>> :> TB) \* ru "TERABAJTOV"
    @@ (<<1055, 1041>> :> PB)                                            \* ru "PB"
    @@ (<<1055, 1045, 1058, 1040, 1041, 1040, 1049, 1058>> :> PB)        \* ru "PETABAJT"
    @@ (<<1055, 1045, 1058, 1040, 1041, 1040, 1049, 1058, 1067>> :> PB)  \* ru "PETABAJTY"
    @@ (<<1055, 1045, 1058, 1040, 1041, 1040, 1049, 1058, 1054, 1042>> :> PB) \* ru "PETABAJTOV"
    @@ (<<1069, 1041>> :> EB)                                            \* ru "EB"
    @@ (<<1069, 1050, 1057, 1040, 1041, 1040, 1049, 1058>> :> EB)        \* ru "EKSABAJT"
    @@ (<<1069, 1050, 1057, 1040, 1041, 1040, 1049, 1058, 1067>> :> EB)  \* ru "EKSABAJTY"
    @@ (<<1069, 1050, 1057, 1040, 1041, 1040, 1049, 1058, 1054, 1042>> :> EB) \* ru "EKSABAJTOV"

\* var localizedUnits = map[Locale]unitDefinitions{...}, as written.
localizedUnitsLiteral ==
       (LocaleEN :> [longUnits |-> enLongUnits, shortUnits |-> enShortUnits,
                     parseMap |-> enParseMap])
    @@ (LocaleRU :> [longUnits |-> ruLongUnits, shortUnits |-> ruShortUnits,
                     parseMap |-> ruParseMap])

\* init that copies nothing.
init_noCopy(lu) == lu

\* func init(): every key of the en parse map that the ru parse map lacks
\* is copied into the ru parse map.
init(lu) ==
    LET en == lu[LocaleEN].parseMap
        ru == lu[LocaleRU].parseMap
        merged == [k \in DOMAIN ru \cup DOMAIN en |->
                      IF k \in DOMAIN ru THEN ru[k] ELSE en[k]]
    IN  [lu EXCEPT ![LocaleRU].parseMap = merged]

\* var localizedUnits once the package is initialized.  Nothing assigns to
\* it or to its maps afterwards, so it is the same in every state.
localizedUnits == init(localizedUnitsLiteral)

(***************************************************************************)
(* Conversions whose result Go leaves to the implementation when the value *)
(* does not fit the target type ("the conversion succeeds but the result   *)
(* value is implementation-dependent"): every outcome a build can produce  *)
(* is a possible result.                                                   *)
(***************************************************************************)

\* 1 << 63 and 1<<63 - 1, 1<<64 - 1 as expansions.
Pow63U   == [i \in UIdx |-> IF i = 6 THEN 8 ELSE 0]
MaxU64   == [i \in UIdx |-> IF i = 6 THEN 15 ELSE 1023]
Pow63F   == [i \in FIdx |-> IF i = 6 THEN 8 ELSE 0]
MaxI64F  == [i \in FIdx |-> IF i \in 0..5 THEN 1023 ELSE IF i = 6 THEN 7 ELSE 0]

\* ToByteSize that rounds to the nearest integer instead of truncating.
ToByteSize_round(x) ==
    LET y == IF x[-1] >= 512 THEN AddAt(IntPart(x), 0, 1) ELSE x
    IN  IF FitsU64(y) THEN {TruncU(y)} ELSE {ZeroU}

\* ByteSize(x) for a float64 x >= 0: the possible results.
ToByteSize(x) ==
    IF FitsU64(x) THEN {TruncU(x)}
    ELSE {ZeroU, Pow63U, MaxU64}     \* out of range: amd64 / saturating builds

\* int(x) for a float64 x >= 0 (int is 64 bits): the possible results, each
\* [neg |-> the sign, mag |-> the magnitude].
ToInt(x) ==
    IF FitsI64(x) THEN {[neg |-> FALSE, mag |-> IntPart(x)]}
    ELSE {[neg |-> TRUE, mag |-> Pow63F],      \* math.MinInt64 (amd64)
          [neg |-> FALSE, mag |-> MaxI64F]}    \* math.MaxInt64 (saturating)

\* n % m in Go: the remainder has the sign of n.
Rem(n, m) ==
    LET r == DivSmallFrom(n.mag, m, 0, 7, 0).r
    IN  IF n.neg THEN 0 - r ELSE r

(***************************************************************************)
(* The package functions.                                                  *)
(***************************************************************************)

\* The error values, by their message.
nil == [msg |-> "<nil>"]
ErrUnsupportedLocale(locale) == [msg |-> "unsupported locale: ", locale |-> locale]
ErrNoSplit == [msg |-> "unrecognized size suffix"]
ErrSuffix(suffix) == [msg |-> "unrecognized size suffix: ", suffix |-> suffix]
ErrSyntax(num) == [msg |-> "strconv.ParseFloat: parsing: invalid syntax", num |-> num]

\* SplitAt with the test for '.' left out: the split is at the first rune
\* that is not a digit.
SplitAt_noDot(s) ==
    LET stops == {i \in 1..Len(s) : ~IsDigit(s[i])}
    IN  IF stops = {} THEN <<>>
        ELSE LET i == CHOOSE j \in stops : \A k \in stops : j <= k
             IN  <<TrimSpace(SubSeq(s, 1, i - 1)), TrimSpace(SubSeq(s, i, Len(s)))>>

\* SplitAt that also splits, at the end, a text with no unit.
SplitAt_always(s) ==
    LET stops == {i \in 1..Len(s) : ~IsDigit(s[i]) /\ s[i] # 46} \cup {Len(s) + 1}
        i     == CHOOSE j \in stops : \A k \in stops : j <= k
    IN  <<TrimSpace(SubSeq(s, 1, i - 1)), TrimSpace(SubSeq(s, i, Len(s)))>>

\* The loop of parseWithLocale: the split at the first rune that is neither
\* a digit nor '.', or no split at all.
SplitAt(s) ==
    LET stops == {i \in 1..Len(s) : ~IsDigit(s[i]) /\ s[i] # 46}
    IN  IF stops = {} THEN <<>>
        ELSE LET i == CHOOSE j \in stops : \A k \in stops : j <= k
             IN  <<TrimSpace(SubSeq(s, 1, i - 1)), TrimSpace(SubSeq(s, i, Len(s)))>>

\* func parseWithLocale(s string, locale Locale) (ByteSize, error):
\* the possible results [ret |-> ..., err |-> ...].
parseWithLocale(s, locale) ==
    IF locale \notin DOMAIN localizedUnits
    THEN {[ret |-> ZeroU, err |-> ErrUnsupportedLocale(locale)]}
    ELSE
    LET units == localizedUnits[locale]
        split == SplitAt(TrimSpace(s))
    IN  IF Len(split) # 2 THEN {[ret |-> ZeroU, err |-> ErrNoSplit]}
        ELSE IF ToUpper(split[2]) \notin DOMAIN units.parseMap
        THEN {[ret |-> ZeroU, err |-> ErrSuffix(split[2])]}
        ELSE
        LET unit  == units.parseMap[ToUpper(split[2])]
            value == ParseFloat(split[1])
        IN  IF ~value.ok THEN {[ret |-> ZeroU, err |-> ErrSyntax(split[1])]}
            ELSE {[ret |-> r, err |-> nil] :
                      r \in ToByteSize(ShiftUp(value.val, Exp10(unit)))}

\* func Parse(s string) (ByteSize, error)
Parse(s) == parseWithLocale(s, CurrentLocale)

\* The forms of getRussianPlural: one, few, many.
PluralForms(unit) ==
    CASE unit = B  -> <<<<1073, 1072, 1081, 1090>>,                   \* bajt
                        <<1073, 1072, 1081, 1090, 1072>>,             \* bajta
                        <<1073, 1072, 1081, 1090, 1086, 1074>>>>      \* bajtov
      [] unit = KB -> <<<<1082, 1080, 1083, 1086, 1073, 1072, 1081, 1090>>,
                        <<1082, 1080, 1083, 1086, 1073, 1072, 1081, 1090, 1072>>,
                        <<1082, 1080, 1083, 1086, 1073, 1072, 1081, 1090, 1086, 1074>>>>
      [] unit = MB -> <<<<1084, 1077, 1075, 1072, 1073, 1072, 1081, 1090>>,
                        <<1084, 1077, 1075, 1072, 1073, 1072, 1081, 1090, 1072>>,
                        <<1084, 1077, 1075, 1072, 1073, 1072, 1081, 1090, 1086, 1074>>>>
      [] unit = GB -> <<<<1075, 1080, 1075, 1072, 1073, 1072, 1081, 1090>>,
                        <<1075, 1080, 1075, 1072, 1073, 1072, 1081, 1090, 1072>>,
                        <<1075, 1080, 1075, 1072, 1073, 1072, 1081, 1090, 1086, 1074>>>>
      [] unit = TB -> <<<<1090, 1077, 1088, 1072, 1073, 1072, 1081, 1090>>,
                        <<1090, 1077, 1088, 1072, 1073, 1072, 1081, 1090, 1072>>,
                        <<1090, 1077, 1088, 1072, 1073, 1072, 1081, 1090, 1086, 1074>>>>
      [] unit = PB -> <<<<1087, 1077, 1090, 1072, 1073, 1072, 1081, 1090>>,
                        <<1087, 1077, 1090, 1072, 1073, 1072, 1081, 1090, 1072>>,
                        <<1087, 1077, 1090, 1072, 1073, 1072, 1081, 1090, 1086, 1074>>>>
      [] unit = EB -> <<<<1101, 1082, 1089, 1072, 1073, 1072, 1081, 1090>>,
                        <<1101, 1082, 1089, 1072, 1073, 1072, 1081, 1090, 1072>>,
                        <<1101, 1082, 1089, 1072, 1073, 1072, 1081, 1090, 1086, 1074>>>>

\* The choice of getRussianPlural among forms, for intValue.
PluralOf(intValue, forms) ==
    IF Rem(intValue, 100) >= 11 /\ Rem(intValue, 100) <= 19 THEN forms[3]
    ELSE CASE Rem(intValue, 10) = 1 -> forms[1]
           [] Rem(intValue, 10) \in {2, 3, 4} -> forms[2]
           [] OTHER -> forms[3]

\* func getRussianPlural(value float64, unit ByteSize) string:
\* the possible results.
getRussianPlural(value, unit) ==
    {PluralOf(intValue, PluralForms(unit)) : intValue \in ToInt(value)}

\* BestUnit with > for >=.
BestUnit_gt(b) ==
    CASE GeqU(b, EB) /\ b # EB -> EB
      [] GeqU(b, PB) /\ b # PB -> PB
      [] GeqU(b, TB) /\ b # TB -> TB
      [] GeqU(b, GB) /\ b # GB -> GB
      [] GeqU(b, MB) /\ b # MB -> MB
      [] GeqU(b, KB) /\ b # KB -> KB
      [] OTHER -> B

\* The unit formatWithUnits renders in when no unit is given.
BestUnit(b) ==
    CASE GeqU(b, EB) -> EB
      [] ~GeqU(b, EB) /\ GeqU(b, PB) -> PB
      [] ~GeqU(b, PB) /\ GeqU(b, TB) -> TB
      [] ~GeqU(b, TB) /\ GeqU(b, GB) -> GB
      [] ~GeqU(b, GB) /\ GeqU(b, MB) -> MB
      [] ~GeqU(b, MB) /\ GeqU(b, KB) -> KB
      [] OTHER -> B

\* The 1.0 of float64.
OneF == [i \in FIdx |-> IF i = 0 THEN 1 ELSE 0]

\* "Unrecognized unit: "
Unrecognized ==
    <<85, 110, 114, 101, 99, 111, 103, 110, 105, 122, 101, 100, 32,
      117, 110, 105, 116, 58, 32>>

\* UnrecognizedUnit that prints the unit as it was looked up.
UnrecognizedUnit_upper(unit) == Unrecognized \o ToUpper(unit)

\* "Unrecognized unit: " + unit
UnrecognizedUnit(unit) == Unrecognized \o unit

\* EnglishLabel without the test value > 0.
EnglishLabel_zero(unitStr, value) ==
    IF value # OneF THEN unitStr \o <<115>> ELSE unitStr

\* if value > 0 && value != 1 { unitStr = unitStr + "s" }
EnglishLabel(unitStr, value) ==
    IF value # ZeroF /\ value # OneF THEN unitStr \o <<115>> ELSE unitStr

\* formatWithUnits with the grammar of the table it is given, not of the
\* active locale.
formatWithUnits_byTable(b, format, unit, longUnits, units) ==
    IF unit # <<>> /\ ToUpper(unit) \notin DOMAIN units.parseMap
    THEN {[out |-> UnrecognizedUnit(unit), unitSize |-> ZeroU, value |-> ZeroF]}
    ELSE
    LET unitSize == IF unit # <<>> THEN units.parseMap[ToUpper(unit)] ELSE BestUnit(b)
        value    == ShiftDown(Float64(b), Exp10(unitSize))
        labels   == IF units.longUnits = ruLongUnits THEN getRussianPlural(value, unitSize)
                    ELSE {EnglishLabel(units.longUnits[unitSize], value)}
    IN  IF longUnits
        THEN {[out |-> Sprintf(format \o <<32, 37, 115>>, value, unitStr),
               unitSize |-> unitSize, value |-> value] : unitStr \in labels}
        ELSE {[out |-> Sprintf(format \o <<37, 115>>, value, units.shortUnits[unitSize]),
               unitSize |-> unitSize, value |-> value]}

\* func (b ByteSize) formatWithUnits(format, unit string, longUnits bool,
\* units unitDefinitions) string: the possible results, each
\* [out |-> the string, unitSize, value |-> the locals at the return].
formatWithUnits(b, format, unit, longUnits, units) ==
    IF unit # <<>> /\ ToUpper(unit) \notin DOMAIN units.parseMap
    THEN {[out |-> UnrecognizedUnit(unit), unitSize |-> ZeroU, value |-> ZeroF]}
    ELSE
    LET unitSize == IF unit # <<>> THEN units.parseMap[ToUpper(unit)] ELSE BestUnit(b)
        value    == ShiftDown(Float64(b), Exp10(unitSize))
        labels   == IF CurrentLocale = LocaleRU THEN getRussianPlural(value, unitSize)
                    ELSE IF CurrentLocale = LocaleEN
                         THEN {EnglishLabel(units.longUnits[unitSize], value)}
                    ELSE {units.longUnits[unitSize]}
    IN  IF longUnits
        THEN {[out |-> Sprintf(format \o <<32, 37, 115>>, value, unitStr),
               unitSize |-> unitSize, value |-> value] : unitStr \in labels}
        ELSE {[out |-> Sprintf(format \o <<37, 115>>, value, units.shortUnits[unitSize]),
               unitSize |-> unitSize, value |-> value]}

\* func (b ByteSize) formatWithLocale(format, unit string, longUnits bool,
\* locale Locale) string
formatWithLocale(b, format, unit, longUnits, locale) ==
    IF locale \in DOMAIN localizedUnits
    THEN formatWithUnits(b, format, unit, longUnits, localizedUnits[locale])
    ELSE formatWithUnits(b, format, unit, longUnits, localizedUnits[LocaleEN])

\* func (b ByteSize) stringWithLocale(locale Locale) string
stringWithLocale(b, locale) == formatWithLocale(b, Format, <<>>, LongUnits, locale)

(***************************************************************************)
(* The inputs of the calls.                                                *)
(***************************************************************************)

\* The longest generated numeric text, the largest multiple of a unit that
\* is formatted, and the longest sequence of SetLocale calls that is logged.
MaxNumLen == 3
MaxMult == 130
MaxSetLocale == 4

\* var Format string = "%.2f"
DefaultFormat == <<37, 46, 50, 102>>

\* The values Format is assigned: "%.2f", "%.0f " (TestRussianFormatting)
\* and "%.1f" (README).
Formats == {DefaultFormat, <<37, 46, 48, 102, 32>>, <<37, 46, 49, 102>>}

\* The locales passed by callers: the supported ones and two others.
Locales == {LocaleEN, LocaleRU, "unknown", ""}

Units == {B, KB, MB, GB, TB, PB, EB}

\* k * (1 << (10 * e)) as a uint64, for k < 1024 * 1024.
Times(k, e) == [i \in UIdx |-> IF i = e THEN k % Base
                               ELSE IF i = e + 1 THEN k \div Base
                               ELSE 0]

\* (1 << (10 * e)) - 1 + d, for 0 <= d < 1024 (e >= 1): the counts at and
\* just below a unit.
Below(e, d) == [i \in UIdx |-> IF i = 0 THEN 1023 - d
                               ELSE IF i < e THEN 1023 ELSE 0]

\* The byte counts that are formatted.
Multiples == {Times(k, e) : k \in 0..MaxMult, e \in 0..5} \cup {Times(k, 6) : k \in 0..15}
Halves    == {[Shl10(e) EXCEPT ![e - 1] = 512] : e \in 1..6}        \* 1.5 units
Edges     == {Below(e, d) : e \in 1..6, d \in {0, 1, 63, 64, 65}}
                 \cup {Times(1023, e) : e \in 0..5}
Large     == {Pow63U, [Pow63U EXCEPT ![1] = 4], [Pow63U EXCEPT ![0] = 1],
              MaxU64, [ZeroU EXCEPT ![5] = 8, ![0] = 1],
              [ZeroU EXCEPT ![6] = 7, ![5] = 1023, ![4] = 1023]}
Counts    == Multiples \cup Halves \cup Edges \cup Large

\* The counts formatted with explicit arguments.
FewCounts == {ZeroU, B, Times(2, 0), Times(1536, 0), KB, Times(11, 1), MB, EB,
              Below(6, 0), Pow63U, [Pow63U EXCEPT ![1] = 4], MaxU64}

\* The unit arguments: none, en and ru spellings in several cases, others.
UnitArgs ==
    {<<>>, <<66>>, <<75, 66>>, <<107, 98>>, <<75, 98>>,                \* B KB kb Kb
     <<109, 101, 103, 97, 98, 121, 116, 101, 115>>,                    \* megabytes
     <<69, 66>>,                                                       \* EB
     <<1050, 1041>>, <<1082, 1073>>,                                   \* ru KB, kb
     <<1084, 1077, 1075, 1072, 1073, 1072, 1081, 1090, 1072>>,         \* ru megabajta
     <<1073, 1072, 1081, 1090, 1086, 1074>>,                           \* ru bajtov
     <<88, 66>>, <<120, 98>>, <<32>>, <<75, 66, 32>>, <<1061, 1041>>}  \* XB xb " " "KB " ru HB

\* The numeric texts: every string of at most MaxNumLen runes over
\* '1', '5', '.', and some more.
RECURSIVE Strings(_, _)
Strings(alphabet, n) ==
    IF n = 0 THEN {<<>>}
    ELSE LET shorter == Strings(alphabet, n - 1)
         IN  shorter \cup {Append(s, a) : s \in shorter, a \in alphabet}

NumTexts ==
    Strings({49, 53, 46}, MaxNumLen)
        \cup {<<48>>, <<50>>, <<49, 48, 50, 52>>, <<50, 46, 53>>,      \* 0 2 1024 2.5
              <<48, 46, 49>>, <<48, 46, 48, 49>>, <<49, 46, 48, 48>>,  \* 0.1 0.01 1.00
              <<49, 54>>, <<50, 48>>, <<49, 53, 46, 57, 57>>,          \* 16 20 15.99
              <<57, 57, 57, 57, 57, 57>>,                              \* 999999
              <<48, 46, 57, 57, 57, 57, 57, 57>>,                      \* 0.999999
              <<1635>>, <<49, 1635>>}                                  \* ARABIC-INDIC 3

\* unicode.ToLower on the runes of the unit tables.
ToLowerRune(r) == IF r \in 65..90 \/ r \in 1040..1071 THEN r + 32 ELSE r
ToLower(s) == [i \in 1..Len(s) |-> ToLowerRune(s[i])]
Capitalized(s) == [i \in 1..Len(s) |-> IF i = 1 THEN s[i] ELSE ToLowerRune(s[i])]

\* The unit texts: every spelling of the two tables in upper case, in lower
\* case and capitalized, and texts no table holds.
Spellings == DOMAIN enParseMap \cup DOMAIN ruParseMap
UnitTexts ==
    Spellings \cup {ToLower(u) : u \in Spellings} \cup {Capitalized(u) : u \in Spellings}
        \cup {<<>>, <<88, 66>>, <<97, 98, 99, 32, 77, 66>>,            \* "" XB "abc MB"
              <<75, 66, 32, 53, 32, 66>>, <<101, 53>>,                 \* "KB 5 B" e5
              <<1061, 1041>>, <<44, 53, 32, 77, 66>>}                  \* ru HB  ",5 MB"

\* The white space around the parts: before, between, after.
Spacings == {<<<<>>, <<>>, <<>>>>, <<<<>>, <<32>>, <<>>>>,
             <<<<32>>, <<32, 32>>, <<9, 32>>>>}

\* The float64 values getRussianPlural is called with: the integers up to
\* MaxMult, each also with a half added, and large ones.
PluralValues ==
    {Float64(Times(k, 0)) : k \in 0..MaxMult}
        \cup {[Float64(Times(k, 0)) EXCEPT ![-1] = 512] : k \in 0..MaxMult}
        \cup {Float64(Times(k, 0)) : k \in {1000, 1001, 1011, 1012, 1022, 1023, 123456}}
        \cup {Float64(c) : c \in Large}

(***************************************************************************)
(* The state machine.  call is the result the caller is looking at: a call *)
(* is made when nothing is pending, and Return drops the result.  The      *)
(* fields of call that are not results are the arguments and, for Parse,   *)
(* the parts the text was put together from.                               *)
(***************************************************************************)

None == [op |-> "none"]

Init ==
    /\ CurrentLocale = LocaleEN
    /\ LongUnits = FALSE
    /\ Format = DefaultFormat
    /\ call = None
    /\ setLog = <<>>
    /\ recv = ZeroU
    /\ texts = <<>>

\* SetLocale without the test that the locale is supported.
SetLocale_unchecked(locale) ==
    /\ CurrentLocale' = locale
    /\ UNCHANGED <<LongUnits, Format>>

\* func SetLocale(locale Locale)
SetLocale(locale) ==
    /\ CurrentLocale' = IF locale \in DOMAIN localizedUnits THEN locale ELSE CurrentLocale
    /\ UNCHANGED <<LongUnits, Format>>

DoSetLocale ==
    /\ call = None
    /\ \E locale \in Locales : SetLocale(locale)
    /\ UNCHANGED <<call, setLog, recv, texts>>

\* SetLocale, with its argument logged.
LogSetLocale ==
    /\ call = None
    /\ Len(setLog) < MaxSetLocale
    /\ \E locale \in Locales : SetLocale(locale) /\ setLog' = Append(setLog, locale)
    /\ UNCHANGED <<call, recv, texts>>

\* LongUnits = v and Format = f: the caller assigns the package variables.
AssignLongUnits ==
    /\ call = None
    /\ \E v \in BOOLEAN : LongUnits' = v
    /\ UNCHANGED <<CurrentLocale, Format, call, setLog, recv, texts>>

AssignFormat ==
    /\ call = None
    /\ \E f \in Formats : Format' = f
    /\ UNCHANGED <<CurrentLocale, LongUnits, call, setLog, recv, texts>>

Frame == UNCHANGED <<CurrentLocale, LongUnits, Format, setLog, recv, texts>>

\* Parse(s), s put together from a numeric text, a unit text and white space.
DoParse ==
    /\ call = None
    /\ \E num \in NumTexts, unit \in UnitTexts, sp \in Spacings :
         LET s == sp[1] \o num \o sp[2] \o unit \o sp[3]
         IN  \E r \in Parse(s) :
               call' = [op |-> "Parse", s |-> s, locale |-> CurrentLocale,
                        num |-> num, unit |-> unit,
                        ret |-> r.ret, err |-> r.err, from |-> None]
    /\ Frame

\* parseWithLocale(s, locale) with the locale given.
DoParseWithLocale ==
    /\ call = None
    /\ \E num \in {<<49>>, <<49, 46, 53>>}, locale \in Locales,
          unit \in {<<77, 66>>, <<1052, 1041>>, <<88, 66>>} :       \* MB, ru MB, XB
         LET s == num \o <<32>> \o unit
         IN  \E r \in parseWithLocale(s, locale) :
               call' = [op |-> "Parse", s |-> s, locale |-> locale,
                        num |-> num, unit |-> unit,
                        ret |-> r.ret, err |-> r.err, from |-> None]
    /\ Frame

\* Parse(s) of the string the last String() returned.
DoParseOutput ==
    /\ call.op = "String"
    /\ \E r \in Parse(call.out) :
         call' = [op |-> "Parse", s |-> call.out, locale |-> CurrentLocale,
                  num |-> <<>>, unit |-> <<>>,
                  ret |-> r.ret, err |-> r.err, from |-> call]
    /\ Frame

\* What a formatting call leaves in call.
Formatted(op, b, format, unit, longUnits, locale, r) ==
    [op |-> op, b |-> b, format |-> format, unit |-> unit, longUnits |-> longUnits,
     locale |-> locale, cur |-> CurrentLocale,
     out |-> r.out, unitSize |-> r.unitSize, value |-> r.value]

\* func (b ByteSize) String() string
DoString(counts) ==
    /\ call = None
    /\ \E b \in counts : \E r \in stringWithLocale(b, CurrentLocale) :
         call' = Formatted("String", b, Format, <<>>, LongUnits, CurrentLocale, r)
    /\ Frame

\* func (b ByteSize) Format(format string, unit string, longUnits bool) string
DoFormat ==
    /\ call = None
    /\ \E b \in FewCounts, format \in Formats, unit \in UnitArgs, longUnits \in BOOLEAN :
         \E r \in formatWithLocale(b, format, unit, longUnits, CurrentLocale) :
           call' = Formatted("Format", b, format, unit, longUnits, CurrentLocale, r)
    /\ Frame

\* b.formatWithLocale(format, unit, longUnits, locale) with the locale given.
DoFormatWithLocale ==
    /\ call = None
    /\ \E b \in {ZeroU, B, Times(2, 0), Times(1536, 0), Times(5, 2)}, locale \in Locales,
          unit \in {<<>>, <<75, 66>>, <<1050, 1041>>, <<88, 66>>},   \* "" KB ru KB XB
          longUnits \in BOOLEAN :
         \E r \in formatWithLocale(b, DefaultFormat, unit, longUnits, locale) :
           call' = Formatted("formatWithLocale", b, DefaultFormat, unit, longUnits, locale, r)
    /\ Frame

\* SetLocale called by a caller that keeps the string formatWithLocale
\* returned.
DoSetLocaleHolding ==
    /\ call.op = "formatWithLocale"
    /\ "prev" \notin DOMAIN call
    /\ \E locale \in Locales : SetLocale(locale)
    /\ UNCHANGED <<call, setLog, recv, texts>>

\* b.formatWithLocale(format, unit, longUnits, locale) once more, with the
\* arguments of the call whose result the caller keeps in prev.
DoFormatAgain ==
    /\ call.op = "formatWithLocale"
    /\ "prev" \notin DOMAIN call
    /\ \E r \in formatWithLocale(call.b, call.format, call.unit, call.longUnits,
                                  call.locale) :
         call' = [op |-> "formatWithLocale", b |-> call.b, format |-> call.format,
                  unit |-> call.unit, longUnits |-> call.longUnits,
                  locale |-> call.locale, cur |-> CurrentLocale,
                  out |-> r.out, unitSize |-> r.unitSize, value |-> r.value,
                  prev |-> [out |-> call.out, cur |-> call.cur]]
    /\ Frame

\* The longest sequence of Set and UnmarshalText calls that is logged.
MaxSetCalls == 3

\* The rune at the start of the bytes t, as ranging over a string decodes
\* it, and the number of bytes it takes: U+FFFD and one byte where the
\* bytes are no UTF-8 encoding.
DecodeRune(t) ==
    LET n     == Len(t)
        b0    == t[1]
        cont(i) == i <= n /\ t[i] \in 128..191
        bad   == [r |-> 65533, size |-> 1]
    IN  IF b0 < 128 THEN [r |-> b0, size |-> 1]
        ELSE IF b0 \in 194..223
        THEN IF cont(2) THEN [r |-> (b0 - 192) * 64 + (t[2] - 128), size |-> 2] ELSE bad
        ELSE IF b0 \in 224..239
        THEN IF /\ cont(2) /\ cont(3)
                /\ (b0 = 224 => t[2] >= 160)
                /\ (b0 = 237 => t[2] <= 159)
             THEN [r |-> (b0 - 224) * 4096 + (t[2] - 128) * 64 + (t[3] - 128), size |-> 3]
             ELSE bad
        ELSE IF b0 \in 240..244
        THEN IF /\ cont(2) /\ cont(3) /\ cont(4)
                /\ (b0 = 240 => t[2] >= 144)
                /\ (b0 = 244 => t[2] <= 143)
             THEN [r |-> (b0 - 240) * 262144 + (t[2] - 128) * 4096
                            + (t[3] - 128) * 64 + (t[4] - 128), size |-> 4]
             ELSE bad
        ELSE bad

\* string(text) for the bytes text: the runes that parseWithLocale finds
\* in it.
RECURSIVE StringOf(_)
StringOf(text) ==
    IF text = <<>> THEN <<>>
    ELSE LET d == DecodeRune(text)
         IN  <<d.r>> \o StringOf(SubSeq(text, d.size + 1, Len(text)))

\* []byte(s): the UTF-8 encoding of the runes of s (below U+10000).
RECURSIVE Bytes(_)
Bytes(s) ==
    IF s = <<>> THEN <<>>
    ELSE LET r == s[1]
             enc == IF r < 128 THEN <<r>>
                    ELSE IF r < 2048 THEN <<192 + (r \div 64), 128 + (r % 64)>>
                    ELSE <<224 + (r \div 4096), 128 + ((r \div 64) % 64), 128 + (r % 64)>>
         IN  enc \o Bytes(Tail(s))

\* The texts Set is called with: "1 MB", "2 <ru KB>", "1024", "16 EB".
SetTexts ==
    {<<49, 32, 77, 66>>, <<50, 32, 1050, 1041>>, <<49, 48, 50, 52>>, <<49, 54, 32, 69, 66>>}

\* The bytes UnmarshalText is called with, each with the runes they hold:
\* the encodings of the texts of Set, "3 KB" with the euro sign after it,
\* and "2 <ru K>" followed by the first byte of a two-byte encoding.
ByteTexts ==
    {[text |-> Bytes(t), s |-> t] : t \in SetTexts}
        \cup {[text |-> <<51, 32, 75, 66, 226, 130, 172>>, s |-> <<51, 32, 75, 66, 8364>>],
              [text |-> <<50, 32, 208, 154, 208>>, s |-> <<50, 32, 1050, 65533>>]}

\* Set that assigns the receiver before it looks at the error.
Set_assignFirst(s) ==
    \E r \in Parse(s) :
       /\ recv' = r.ret
       /\ call' = [op |-> "Set", s |-> s, locale |-> CurrentLocale, err |-> r.err]

\* func (b *ByteSize) Set(s string) error
Set(s) ==
    \E r \in Parse(s) :
       /\ recv' = IF r.err # nil THEN recv ELSE r.ret
       /\ call' = [op |-> "Set", s |-> s, locale |-> CurrentLocale, err |-> r.err]

\* func (b *ByteSize) UnmarshalText(text []byte) error
UnmarshalText(text) == Set(StringOf(text))

DoSet ==
    /\ call = None
    /\ Len(texts) < MaxSetCalls
    /\ \E s \in SetTexts :
         /\ Set(s)
         /\ texts' = Append(texts, [s |-> s, locale |-> CurrentLocale])
    /\ UNCHANGED <<CurrentLocale, LongUnits, Format, setLog>>

\* UnmarshalText(text); the log takes the runes text was made from.
DoUnmarshalText ==
    /\ call = None
    /\ Len(texts) < MaxSetCalls
    /\ \E t \in ByteTexts :
         /\ UnmarshalText(t.text)
         /\ texts' = Append(texts, [s |-> t.s, locale |-> CurrentLocale])
    /\ UNCHANGED <<CurrentLocale, LongUnits, Format, setLog>>

\* getRussianPlural(value, unit)
DoGetRussianPlural ==
    /\ call = None
    /\ \E value \in PluralValues, unit \in Units :
         \E out \in getRussianPlural(value, unit) :
           call' = [op |-> "getRussianPlural", value |-> value, unit |-> unit, out |-> out]
    /\ Frame

\* The caller is done with the result.
Return ==
    /\ call # None
    /\ call' = None
    /\ Frame

\* Formatting, with every setting: String, Format, formatWithLocale, and
\* Parse of what String returned.
Next ==
    \/ DoSetLocale
    \/ AssignLongUnits
    \/ AssignFormat
    \/ DoString(Counts)
    \/ DoFormat
    \/ DoFormatWithLocale
    \/ DoParseOutput
    \/ Return

Spec == Init /\ [][Next]_vars

\* Parsing: Parse and parseWithLocale under both locales, between SetLocale
\* and String calls.
NextParse ==
    \/ DoSetLocale
    \/ DoParse
    \/ DoParseWithLocale
    \/ DoString({B, Times(1536, 0), MB})
    \/ Return

SpecParse == Init /\ [][NextParse]_vars

\* getRussianPlural called directly, as TestRussianPluralLogic does.
NextPlural ==
    \/ DoGetRussianPlural
    \/ Return

SpecPlural == Init /\ [][NextPlural]_vars

\* Sequences of SetLocale calls between assignments to the other settings.
NextLocale ==
    \/ LogSetLocale
    \/ AssignLongUnits
    \/ AssignFormat

SpecLocale == Init /\ [][NextLocale]_vars

\* formatWithLocale with every locale argument, once and again, between
\* SetLocale calls.
NextGrammar ==
    \/ DoSetLocale
    \/ DoFormatWithLocale
    \/ DoSetLocaleHolding
    \/ DoFormatAgain
    \/ Return

SpecGrammar == Init /\ [][NextGrammar]_vars

\* Set and UnmarshalText on one receiver, between SetLocale calls.
NextSet ==
    \/ DoSetLocale
    \/ DoSet
    \/ DoUnmarshalText
    \/ Return

SpecSet == Init /\ [][NextSet]_vars

(***************************************************************************)
(* The properties.                                                         *)
(***************************************************************************)

Supported == {"en", "ru"}

\* A call that formatted a byte count, and one that parsed a text put
\* together from its parts.
IsFormatCall == call.op \in {"String", "Format", "formatWithLocale"}
IsParseCall  == call.op = "Parse" /\ call.from = None

\* The string "1.00KB", "1.00<ru KB>", ... : 1.00 and the short symbol.
ShortOne(locale, unit) ==
    <<49, 46, 48, 48>> \o (IF locale = "en" THEN enShortUnits ELSE ruShortUnits)[unit]

\* C1: round trip on the exact magnitudes.  When String() of one of the seven
\* magnitudes M, made with short units and the format "%.2f" under the
\* active locale L (en or ru), is parsed under L, the result is M with no
\* error, and String() of the result is the parsed string again.
C1_RoundTrip ==
    (/\ call.op = "Parse"
     /\ call.from # None
     /\ call.from.b \in Units
     /\ ~call.from.longUnits
     /\ call.from.format = <<37, 46, 50, 102>>)
    => /\ call.locale = call.from.cur
       /\ call.s = ShortOne(call.locale, call.from.b)
       /\ call.err = [msg |-> "<nil>"]
       /\ call.ret = call.from.b
       /\ \A r \in stringWithLocale(call.ret, call.locale) : r.out = call.s

C1_Witness ==
    /\ call.op = "Parse"
    /\ call.from # None
    /\ call.from.b = EB
    /\ call.locale = "ru"
    /\ call.s = <<49, 46, 48, 48, 1069, 1041>>
    /\ call.ret = EB

\* The argument of the last call of log that named a supported locale, en
\* when there is none.
RECURSIVE LastSupported(_)
LastSupported(log) ==
    IF log = <<>> THEN "en"
    ELSE IF log[Len(log)] \in Supported THEN log[Len(log)]
    ELSE LastSupported(SubSeq(log, 1, Len(log) - 1))

\* C2: after any sequence of SetLocale calls the active locale is the
\* argument of the last call that named a supported locale (en if none);
\* a SetLocale call never changes LongUnits or Format, and with an
\* unsupported locale it changes nothing.
C2_SetLocale ==
    /\ [](CurrentLocale = LastSupported(setLog))
    /\ [][setLog' # setLog =>
            /\ LongUnits' = LongUnits
            /\ Format' = Format
            /\ (setLog'[Len(setLog')] \notin Supported => CurrentLocale' = CurrentLocale)
            /\ (setLog'[Len(setLog')] \in Supported => CurrentLocale' = setLog'[Len(setLog')])]_vars

C2_Witness ==
    /\ setLog = <<"ru", "en", "ru", "unknown">>
    /\ CurrentLocale = "ru"

\* C3: the fallback goes one way and never changes.  In every state, every
\* key of the en parse map is a key of the ru parse map with the same unit,
\* and no key the ru table was written with is a key of the en parse map;
\* so a Parse under ru of a text en accepts returns what en returns
\* ("1 MB" is 1048576), and a Parse under en of a ru spelling fails with
\* "unrecognized size suffix: " and the spelling.
C3_Fallback ==
    /\ \A k \in DOMAIN localizedUnits["en"].parseMap :
          /\ k \in DOMAIN localizedUnits["ru"].parseMap
          /\ localizedUnits["ru"].parseMap[k] = localizedUnits["en"].parseMap[k]
    /\ \A k \in DOMAIN ruParseMap : k \notin DOMAIN localizedUnits["en"].parseMap
    /\ (IsParseCall /\ call.locale = "ru") =>
          /\ call.s = <<49, 32, 77, 66>> => call.err = nil /\ call.ret = U64(1048576)
          /\ (\E r \in parseWithLocale(call.s, "en") : r.err = nil) =>
                [ret |-> call.ret, err |-> call.err] \in parseWithLocale(call.s, "en")
    /\ (IsParseCall /\ call.locale = "en" /\ ToUpper(call.unit) \in DOMAIN ruParseMap) =>
          /\ call.err = [msg |-> "unrecognized size suffix: ", suffix |-> call.unit]
          /\ call.ret = ZeroU

C3_Witness ==
    /\ IsParseCall
    /\ call.locale = "ru"
    /\ call.s = <<49, 32, 77, 66>>
    /\ call.ret = U64(1048576)

\* The text has a numeric part, a unit part.
HasNumber == call.num # <<>>
HasUnit   == call.unit # <<>>

IsDecimal(num) ==
    /\ \A i \in 1..Len(num) : num[i] \in 48..57 \/ num[i] = 46
    /\ Cardinality({i \in 1..Len(num) : num[i] = 46}) <= 1
    /\ \E i \in 1..Len(num) : num[i] \in 48..57

\* The digits of num, without the point.
AllDigits(num) == SelectSeq(num, LAMBDA r : r # 46)

\* v * 1024^k truncated toward zero, in exact arithmetic, for the decimal v
\* that num denotes: the integer part moves up k places, and below it comes
\* the quotient of (the fraction's digits) * 1024^k by 10^(their number).
ExactProduct(num, k) ==
    LET ip == DecToInt(IntDigits(num), ZeroF)
        fd == FracDigits(num)
        fn == ShiftUp(DecToInt(fd, ZeroF), k)
        q  == DivSmallFrom(fn, 10^Len(fd), 0, 7, 0).q
    IN  [i \in FIdx |-> IF i < 0 THEN 0 ELSE IF i >= k THEN ip[i - k] ELSE q[i]]

\* (all the digits of num) * 1024^k < 2^53.
ExactlyScaled(num, k) ==
    LET n == ShiftUp(DecToInt(AllDigits(num), ZeroF), k)
    IN  n[7] = 0 /\ n[6] = 0 /\ n[5] < 8

\* The call parsed a decimal number and a unit the locale knows.
WellFormed ==
    /\ IsParseCall
    /\ call.locale \in Supported
    /\ IsDecimal(call.num)
    /\ ToUpper(call.unit) \in DOMAIN localizedUnits[call.locale].parseMap

UnitExp == Exp10(localizedUnits[call.locale].parseMap[ToUpper(call.unit)])

LargestUnit(b) == IF b = ZeroU THEN Shl10(0) ELSE Shl10(TopLimb(b))

\* 1024.0
KiloF == [i \in FIdx |-> IF i = 1 THEN 1 ELSE 0]

\* The unit is chosen by formatWithUnits.
NoOverride == IsFormatCall /\ call.unit = <<>>

\* C6 as claimed: with no unit given the count is rendered in the largest
\* unit that is at most b, and for b >= 1 the display value is >= 1 and
\* < 1024.
C6_AsClaimed ==
    NoOverride =>
       /\ call.unitSize = LargestUnit(call.b)
       /\ call.b # ZeroU => GeqF(call.value, OneF) /\ ~GeqF(call.value, KiloF)

\* C6, amended: with no unit given the count is rendered in the largest
\* unit that is at most b (bytes when b < 1024, b = 0 included), so
\* 1024^k - 1 is rendered in 1024^(k-1) and 1024^k in 1024^k; for b >= 1 the
\* display value is >= 1 and <= 1024, and it is 1024 exactly when
\* 2^60 - 64 <= b < 2^60, where float64(b) is 2^60.
C6_BestUnit ==
    NoOverride =>
       /\ call.unitSize = LargestUnit(call.b)
       /\ \A e \in 1..6 :
             /\ call.b = Below(e, 0) => call.unitSize = Shl10(e - 1)
             /\ call.b = Shl10(e) => call.unitSize = Shl10(e)
       /\ call.b # ZeroU =>
             /\ GeqF(call.value, OneF)
             /\ GeqF(KiloF, call.value)
             /\ call.value = KiloF <=>
                   /\ \A i \in 1..5 : call.b[i] = 1023
                   /\ call.b[6] = 0
                   /\ call.b[0] >= 960

C6_Witness ==
    /\ call.op = "String"
    /\ call.b = Below(6, 0)
    /\ call.unitSize = PB
    /\ call.value = KiloF

\* s begins with p.
HasPrefix(s, p) == Len(s) >= Len(p) /\ SubSeq(s, 1, Len(p)) = p

\* The table formatWithLocale resolves locale to.
Resolved(locale) == IF locale \in Supported THEN locale ELSE "en"

\* C7: a unit argument that is not empty and, in upper case, is no key of
\* the resolved locale's parse map makes the result "Unrecognized unit: "
\* and the argument as written, whatever the count, format and long/short
\* setting; an empty unit argument never gives "Unrecognized unit: "; the
\* en spelling "kb" resolves under ru, the ru spelling of kb does not under
\* en.
C7_Unrecognized ==
    IsFormatCall =>
       /\ (/\ call.unit # <<>>
           /\ ToUpper(call.unit) \notin DOMAIN localizedUnits[Resolved(call.locale)].parseMap)
          => call.out = <<85, 110, 114, 101, 99, 111, 103, 110, 105, 122, 101, 100, 32,
                          117, 110, 105, 116, 58, 32>> \o call.unit
       /\ call.unit = <<>> =>
             call.out # <<85, 110, 114, 101, 99, 111, 103, 110, 105, 122, 101, 100, 32,
                          117, 110, 105, 116, 58, 32>>
       /\ (call.unit = <<107, 98>> /\ call.locale = "ru") =>
             call.unitSize = KB /\ ~HasPrefix(call.out, <<85, 110, 114, 101, 99>>)
       /\ (call.unit = <<1082, 1073>> /\ Resolved(call.locale) = "en") =>
             HasPrefix(call.out, <<85, 110, 114, 101, 99>>)

C7_Witness ==
    /\ call.op = "Format"
    /\ call.unit = <<120, 98>>
    /\ call.longUnits
    /\ call.out = <<85, 110, 114, 101, 99, 111, 103, 110, 105, 122, 101, 100, 32,
                    117, 110, 105, 116, 58, 32, 120, 98>>

\* 1024^i mod m, and the integer part of x mod m.
RECURSIVE PowMod(_, _)
PowMod(i, m) == IF i = 0 THEN 1 % m ELSE (PowMod(i - 1, m) * 1024) % m

RECURSIVE SumMod(_, _, _)
SumMod(x, i, m) == IF i > 7 THEN 0 ELSE (x[i] * PowMod(i, m) + SumMod(x, i + 1, m)) % m

\* The form the three-way rule gives for the integer part n of value:
\* 3 (many) when n mod 100 is in 11..19, else 1 (one) when n mod 10 = 1,
\* 2 (few) when n mod 10 is 2, 3 or 4, and 3 (many) otherwise.
RuleForm(value) ==
    IF SumMod(value, 0, 100) \in 11..19 THEN 3
    ELSE IF SumMod(value, 0, 10) = 1 THEN 1
    ELSE IF SumMod(value, 0, 10) \in {2, 3, 4} THEN 2
    ELSE 3

\* C8 as claimed: for every display value getRussianPlural returns the form
\* of the unit that the three-way rule gives.
C8_AsClaimed ==
    call.op = "getRussianPlural" =>
       call.out = PluralForms(call.unit)[RuleForm(call.value)]

\* C8 where int(value) is defined: for every display value below 2^63 (int
\* being 64 bits) and each of the seven units, getRussianPlural returns the
\* form of the unit that the three-way rule gives for the value truncated
\* to an integer.
C8_Plural ==
    (call.op = "getRussianPlural" /\ FitsI64(call.value)) =>
       /\ call.out = PluralForms(call.unit)[RuleForm(call.value)]
       /\ \A n \in {0, 5, 11, 12, 19, 20, 25} :
             call.value = Float64(U64(n)) => call.out = PluralForms(call.unit)[3]
       /\ \A n \in {1, 21, 31, 101} :
             call.value = Float64(U64(n)) => call.out = PluralForms(call.unit)[1]
       /\ \A n \in {2, 3, 4, 22, 23, 24} :
             call.value = Float64(U64(n)) => call.out = PluralForms(call.unit)[2]

C8_Witness ==
    /\ call.op = "getRussianPlural"
    /\ call.value = [Float64(U64(112)) EXCEPT ![-1] = 512]      \* 112.5
    /\ call.unit = GB
    /\ call.out = PluralForms(GB)[3]

\* String() with en active and long units.
EnglishLong ==
    /\ call.op = "String"
    /\ call.cur = "en"
    /\ call.longUnits

\* The number as format prints it, a space, and the label.
Labelled(label) == Sprintf(call.format, call.value, <<>>) \o <<32>> \o label

\* C9 as claimed: the label is the bare long name only when the display
\* value is exactly 1; for zero and every other value it is the name and "s".
C9_AsClaimed ==
    EnglishLong =>
       call.out = Labelled(IF call.value = OneF
                           THEN enLongUnits[call.unitSize]
                           ELSE enLongUnits[call.unitSize] \o <<115>>)

\* C9, amended: the label is the bare long name when the display value is
\* exactly 1 and when it is zero; for every positive value other than 1
\* (2, 1.5) it is the long name with "s" appended.
C9_EnglishPlural ==
    EnglishLong =>
       call.out = Labelled(IF call.value = OneF \/ call.b = ZeroU
                           THEN enLongUnits[call.unitSize]
                           ELSE enLongUnits[call.unitSize] \o <<115>>)

C9_Witness ==
    /\ EnglishLong
    /\ call.b = ZeroU
    /\ call.format = <<37, 46, 50, 102>>
    /\ call.out = <<48, 46, 48, 48, 32, 98, 121, 116, 101>>     \* "0.00 byte"

\* The decimal digits of a number n >= 1.
RECURSIVE DecimalOf(_)
DecimalOf(n) == IF n = 0 THEN <<>> ELSE Append(DecimalOf(n \div 10), 48 + (n % 10))

\* The form the three-way rule gives for k.
FormOf(k) ==
    IF k % 100 \in 11..19 THEN 3
    ELSE IF k % 10 = 1 THEN 1
    ELSE IF k % 10 \in {2, 3, 4} THEN 2
    ELSE 3

\* C10 as claimed (and as TestRussianFormatting expects): with ru active,
\* long units and the format "%.0f ", String() of k * M, 1 <= k < 1024, is
\* the decimal k, one space, and the plural form of M for k.
C10_AsClaimed ==
    (/\ call.op = "String"
     /\ call.cur = "ru"
     /\ call.longUnits
     /\ call.format = <<37, 46, 48, 102, 32>>
     /\ \E k \in 1..1023, e \in 0..6 : call.b = Times(k, e))
    => LET e == TopLimb(call.b)
           k == call.b[e]
       IN  call.out = DecimalOf(k) \o <<32>> \o PluralForms(Shl10(e))[FormOf(k)]

\* C11 as claimed (and as the README examples say): under ru with long units
\* the display value 1.5 takes the few form.  String() of 1.5 * MB with the
\* format "%.2f" is "1.50 <ru megabajta>", and 1536 formatted with "%.1f",
\* the unit "KB", long units and the locale ru is "1.5 <ru kilobajta>".
C11_AsClaimed ==
    /\ (/\ call.op = "String"
        /\ call.cur = "ru"
        /\ call.longUnits
        /\ call.format = <<37, 46, 50, 102>>
        /\ call.b = [Shl10(2) EXCEPT ![1] = 512])
       => call.out = <<49, 46, 53, 48, 32,
                       1084, 1077, 1075, 1072, 1073, 1072, 1081, 1090, 1072>>
    /\ (/\ call.op \in {"Format", "formatWithLocale"}
        /\ call.locale = "ru"
        /\ call.longUnits
        /\ call.format = <<37, 46, 49, 102>>
        /\ call.unit = <<75, 66>>
        /\ call.b = Times(1536, 0))
       => call.out = <<49, 46, 53, 32,
                       1082, 1080, 1083, 1086, 1073, 1072, 1081, 1090, 1072>>

\* A formatWithLocale call whose unit argument, if any, the table of the
\* locale knows; the same call repeated.
GrammarCall ==
    /\ call.op = "formatWithLocale"
    /\ call.unit # <<>> =>
          ToUpper(call.unit) \in DOMAIN localizedUnits[Resolved(call.locale)].parseMap
Again == call.op = "formatWithLocale" /\ "prev" \in DOMAIN call

OwnLocaleCall ==
    /\ IsFormatCall
    /\ call.locale \in Supported
    /\ call.cur = call.locale
    /\ call.unit # <<>> => ToUpper(call.unit) \in DOMAIN localizedUnits[call.locale].parseMap

\* The unit label of the string the call returned: what follows the number
\* and, in long form, the space.
EmittedLabel ==
    LET num == Sprintf(call.format, call.value, <<>>)
    IN  SubSeq(call.out, Len(num) + (IF call.longUnits THEN 2 ELSE 1), Len(call.out))

\* C13 as claimed: every unit label the formatter emits for a supported
\* locale that is also the active one is, in upper case, a key of that
\* locale's parse map with the unit it was emitted for, and Parse of what
\* String() returned succeeds.
C13_AsClaimed ==
    /\ OwnLocaleCall =>
          /\ ToUpper(EmittedLabel) \in DOMAIN localizedUnits[call.locale].parseMap
          /\ localizedUnits[call.locale].parseMap[ToUpper(EmittedLabel)] = call.unitSize
    /\ (call.op = "Parse" /\ call.from # None) => call.err = [msg |-> "<nil>"]

\* The values the receiver can hold after the calls of log: what the last
\* call whose text parsed under its locale returned, 0 when there is none.
RECURSIVE LastParsed(_)
LastParsed(log) ==
    IF log = <<>> THEN {ZeroU}
    ELSE LET e   == log[Len(log)]
             res == parseWithLocale(e.s, e.locale)
         IN  {r.ret : r \in {x \in res : x.err = [msg |-> "<nil>"]}}
                 \cup (IF \E x \in res : x.err # [msg |-> "<nil>"]
                       THEN LastParsed(SubSeq(log, 1, Len(log) - 1))
                       ELSE {})

\* C14: Set and UnmarshalText go through Parse with the active locale.
\* After any sequence of them the receiver holds the value of the last text
\* that parsed (0, its first value, if none did); a call whose text parses
\* returns nil and leaves the parsed value in the receiver, a call whose text
\* does not parse returns the error of Parse and leaves the receiver as it
\* was; no call changes CurrentLocale, LongUnits or Format.
C14_Set ==
    /\ [](recv \in LastParsed(texts))
    /\ [][texts' # texts =>
            LET e   == texts'[Len(texts')]
                res == parseWithLocale(e.s, CurrentLocale)
            IN  /\ e.locale = CurrentLocale
                /\ call'.err \in {r.err : r \in res}
                /\ call'.err = [msg |-> "<nil>"] =>
                      \E r \in res : r.err = [msg |-> "<nil>"] /\ recv' = r.ret
                /\ call'.err # [msg |-> "<nil>"] => recv' = recv
                /\ CurrentLocale' = CurrentLocale
                /\ LongUnits' = LongUnits
                /\ Format' = Format]_vars

\* "1 MB" was set, then "2 <ru KB>" failed under en and UnmarshalText of
\* bytes that are no UTF-8 failed under ru: the receiver is still 1048576.
C14_Witness ==
    /\ Len(texts) = 3
    /\ texts[1].s = <<49, 32, 77, 66>>
    /\ texts[2] = [s |-> <<50, 32, 1050, 1041>>, locale |-> "en"]
    /\ texts[3] = [s |-> <<50, 32, 1050, 65533>>, locale |-> "ru"]
    /\ call.op = "Set"
    /\ call.err = [msg |-> "unrecognized size suffix: ", suffix |-> <<1050, 65533>>]
    /\ recv = U64(1048576)

====
